---- MODULE Spec2Model ----
(***************************************************************************)
(* The editable budget grid of src/Demo2/src/components/BudgetGrid.tsx:    *)
(* the component's six pieces of React state, its three callbacks          *)
(* (loadBudgets, handleDraftChange, handleCommit), the continuations of    *)
(* the two awaited service calls, and the user events the rendered view    *)
(* makes possible.                                                         *)
(*                                                                         *)
(* Text is a sequence of one-character strings, so that trim(), Number()   *)
(* and String() are computed and not assumed.  An optional value           *)
(* (string | undefined) is <<>> for undefined and <<v>> for the value v.   *)
(*                                                                         *)
(* A step is one callback run to completion on the single UI thread: the   *)
(* part of an async function up to its await, or its continuation once the *)
(* awaited call has settled.  Every user event reaches the callbacks of    *)
(* the latest render, whose closure holds the current state.               *)
(***************************************************************************)
EXTENDS Integers, Sequences, FiniteSets, TLC

\* ------------------------------------------------------------------ bounds

\* User events (keystrokes, blurs, Refresh clicks) in one run.
MaxEvents == 4

\* Update requests in flight at once.
MaxPending == 2

\* User events in one run of the specification with fairness.
MaxFairEvents == 3

\* ------------------------------------------------------------- text values

T_Q1 == <<"Q", "1">>
T_Q2sp == <<" ", "Q", "2">>
T_Q3sp == <<" ", "Q", "3", " ">>
T_150 == <<"1", "5", "0">>
T_150sp == <<" ", "1", "5", "0">>
T_1p50 == <<"1", ".", "5", "0">>
T_abc == <<"a", "b", "c">>
T_sp == <<" ">>
T_u1 == <<"u", "1">>
T_u2 == <<"u", "2">>
T_Infinity == <<"I", "n", "f", "i", "n", "i", "t", "y">>
T_NaN == <<"N", "a", "N">>

\* type DraftField
DraftField == {"name", "budgetConsumed", "ownerId"}

\* What the user types into the input of each field.
Typed(field) ==
    CASE field = "name" -> {T_Q3sp}
      [] field = "budgetConsumed" -> {T_150sp, T_abc, T_sp}
      [] field = "ownerId" -> {T_u2}

\* ------------------------------------------------- String.prototype.trim

\* The alphabet of the model has one white space character.
IsWhiteSpace(c) == c = " "

RECURSIVE trimStart(_)
trimStart(s) ==
    IF s # <<>> /\ IsWhiteSpace(Head(s)) THEN trimStart(Tail(s)) ELSE s

RECURSIVE trimEnd(_)
trimEnd(s) ==
    IF s # <<>> /\ IsWhiteSpace(s[Len(s)])
    THEN trimEnd(SubSeq(s, 1, Len(s) - 1))
    ELSE s

trim(s) == trimEnd(trimStart(s))

\* ------------------------------------------------------ Number and String

\* A number value: NaN, an infinity, or the decimal (-1)^neg * m / 10^e with
\* no trailing zero in the fraction.  The texts of the model are short
\* decimals, which an IEEE double reads and prints back exactly.
Digits == {"0", "1", "2", "3", "4", "5", "6", "7", "8", "9"}

DigitChars == <<"0", "1", "2", "3", "4", "5", "6", "7", "8", "9">>

DigitValue(c) == CHOOSE d \in 0..9 : DigitChars[d + 1] = c

NaN == [kind |-> "NaN", neg |-> FALSE, m |-> 0, e |-> 0]

InfinityValue(neg) == [kind |-> "Infinity", neg |-> neg, m |-> 0, e |-> 0]

RECURSIVE Finite(_, _, _)
Finite(neg, m, e) ==
    IF e > 0 /\ m % 10 = 0
    THEN Finite(neg, m \div 10, e - 1)
    ELSE [kind |-> "finite", neg |-> neg, m |-> m, e |-> e]

RECURSIVE Pow10(_)
Pow10(n) == IF n = 0 THEN 1 ELSE 10 * Pow10(n - 1)

AllDigits(s) == \A i \in 1..Len(s) : s[i] \in Digits

RECURSIVE DigitsValue(_)
DigitsValue(s) ==
    IF s = <<>>
    THEN 0
    ELSE 10 * DigitsValue(SubSeq(s, 1, Len(s) - 1)) + DigitValue(s[Len(s)])

\* Number(text): StringToNumber over the alphabet of digits, ".", "+", "-",
\* the space, the word Infinity and letters that start no numeric literal
\* (no exponent and no radix prefix occurs in the model's texts).
Number(s) ==
    LET t == trim(s)
        signed == t # <<>> /\ Head(t) \in {"+", "-"}
        neg == signed /\ Head(t) = "-"
        body == IF signed THEN Tail(t) ELSE t
        dots == {i \in 1..Len(body) : body[i] = "."}
        dot == IF dots = {}
               THEN Len(body) + 1
               ELSE CHOOSE i \in dots : \A j \in dots : i <= j
        ip == SubSeq(body, 1, dot - 1)
        fp == SubSeq(body, dot + 1, Len(body))
    IN  IF t = <<>> THEN Finite(FALSE, 0, 0)
        ELSE IF body = T_Infinity THEN InfinityValue(neg)
        ELSE IF AllDigits(ip) /\ AllDigits(fp) /\ Len(ip) + Len(fp) > 0
             THEN Finite(neg, DigitsValue(ip \o fp), Len(fp))
        ELSE NaN

\* Number.isFinite
NumberIsFinite(n) == n.kind = "finite"

RECURSIVE NatToText(_)
NatToText(n) ==
    IF n < 10
    THEN <<DigitChars[n + 1]>>
    ELSE NatToText(n \div 10) \o <<DigitChars[(n % 10) + 1]>>

RECURSIVE PadZeros(_, _)
PadZeros(s, width) == IF Len(s) < width THEN PadZeros(<<"0">> \o s, width) ELSE s

\* String(number): Number::toString in decimal notation (the model's numbers
\* lie between 1e-7 and 1e21 in magnitude, where no exponent is printed).
String(n) ==
    CASE n.kind = "NaN" -> T_NaN
      [] n.kind = "Infinity" -> (IF n.neg THEN <<"-">> ELSE <<>>) \o T_Infinity
      [] OTHER ->
            IF n.m = 0
            THEN <<"0">>
            ELSE (IF n.neg THEN <<"-">> ELSE <<>>)
                 \o NatToText(n.m \div Pow10(n.e))
                 \o (IF n.e > 0
                     THEN <<".">> \o PadZeros(NatToText(n.m % Pow10(n.e)), n.e)
                     ELSE <<>>)

\* -------------------------------------------------------------- the store

\* Records the store returns from getAll; an attribute the store leaves out
\* is <<>>.
Budget(id, name, consumed, owner) ==
    [promx_budgetid |-> id, promx_name |-> name,
     promx_budgetconsumed |-> consumed, ownerid |-> owner]

Budget1 == Budget("b1", <<T_Q1>>, <<T_150>>, <<T_u1>>)
Budget2 == Budget("b2", <<T_Q2sp>>, <<>>, <<>>)
Budget1b == Budget("b1", <<T_Q1>>, <<T_1p50>>, <<T_u1>>)

\* result.data when it is an array.
ListData == {<<Budget1, Budget2>>, <<Budget1b>>, <<>>}

\* What getAll resolves with: data is an array of ListData, or no array.
ListResults ==
    {[isArray |-> TRUE, data |-> d] : d \in ListData}
        \cup {[isArray |-> FALSE, data |-> <<>>]}

\* What a rejected service call throws: an Error with a message, or a value
\* that is no Error.
ErrorValue(message) == [isError |-> TRUE, message |-> message]

NonErrorValue == [isError |-> FALSE, message |-> ""]

Thrown == {ErrorValue("network timeout"), NonErrorValue}

\* What a rejected getAll throws: the above, or an Error without a message
\* (new Error() has the message ''), which the view chain reads as no error.
ListThrown == Thrown \cup {ErrorValue("")}

\* ------------------------------------------------------------------ state

VARIABLES
    rows,         \* useState<BudgetRow[]>
    drafts,       \* useState<Record<string, BudgetRow>>
    loading,      \* useState(true)
    loadError,    \* useState<string | undefined>
    saving,       \* useState<FieldSaving>
    fieldErrors,  \* useState<FieldErrors>
    mounted,      \* whether the mount effect has run
    listCalls,    \* getAll calls awaiting their response
    pending,      \* update calls awaiting their response, in call order
    events,       \* user events so far
    ev            \* the step taken last: the handler, its inputs, what it found

vars == <<rows, drafts, loading, loadError, saving, fieldErrors,
          mounted, listCalls, pending, events, ev>>

\* An object with no keys ({}), as a function with the empty domain.
EmptyObject == <<>>

\* { ...current, [key]: value }
Spread(current, key, value) == (key :> value) @@ current

\* current[id] spread into a new object: nothing when current has no id.
SpreadOf(current, id) == IF id \in DOMAIN current THEN current[id] ELSE EmptyObject

Init ==
    /\ rows = <<>>
    /\ drafts = EmptyObject
    /\ loading = TRUE
    /\ loadError = <<>>
    /\ saving = EmptyObject
    /\ fieldErrors = EmptyObject
    /\ mounted = FALSE
    /\ listCalls = 0
    /\ pending = <<>>
    /\ events = 0
    /\ ev = [op |-> "init"]

\* -------------------------------------------------------------- helpers

getErrorKey(id, field) == id \o "-" \o field

\* value ?? ''
OrEmpty(opt) == IF opt = <<>> THEN <<>> ELSE opt[1]

\* drafts[id]?.[field] ?? ''
getDraftValue(d, id, field) ==
    IF id \in DOMAIN d /\ field \in DOMAIN d[id] THEN d[id][field] ELSE <<>>

\* Mutant: the message of the failure is dropped.
MessageOf_Fallback(error, fallback) == fallback

\* error instanceof Error ? error.message : fallback
MessageOf(error, fallback) == IF error.isError THEN error.message ELSE fallback

\* rows.find((row) => row.id === id): the first match, <<>> when none.
FindRow(rs, id) ==
    LET hits == {i \in 1..Len(rs) : rs[i].id = id}
    IN  IF hits = {} THEN <<>> ELSE <<rs[CHOOSE i \in hits : \A j \in hits : i <= j]>>

RowIds(rs) == {rs[i].id : i \in 1..Len(rs)}

\* errors[key]: undefined when the object has no such key.
Lookup(object, key) == IF key \in DOMAIN object THEN object[key] ELSE <<>>

\* A JavaScript string used as a condition.
Truthy(opt) == opt # <<>> /\ opt[1] # ""

\* ------------------------------------------------------------ loadBudgets

\* data.map(...): one BudgetRow per budget, missing attributes as ''.
Mapped(data) ==
    [i \in 1..Len(data) |->
        [id |-> data[i].promx_budgetid,
         name |-> OrEmpty(data[i].promx_name),
         budgetConsumed |-> OrEmpty(data[i].promx_budgetconsumed),
         ownerId |-> OrEmpty(data[i].ownerid)]]

\* Mutant: a draft that exists already is kept.
DraftSeed_Merge(mapped) ==
    [id \in RowIds(mapped) |->
        IF id \in DOMAIN drafts THEN drafts[id] ELSE FindRow(mapped, id)[1]]

\* draftSeed: mapped.forEach((item) => { draftSeed[item.id] = { ...item } })
RECURSIVE DraftSeed(_)
DraftSeed(mapped) ==
    IF mapped = <<>>
    THEN EmptyObject
    ELSE LET n == Len(mapped)
         IN  Spread(DraftSeed(SubSeq(mapped, 1, n - 1)), mapped[n].id, mapped[n])

\* Mutant: the load error of the last attempt is kept until the outcome.
loadBudgets_KeepsError ==
    /\ loading' = TRUE
    /\ listCalls' = listCalls + 1
    /\ UNCHANGED <<loadError, rows, drafts, saving, fieldErrors, pending>>

\* loadBudgets up to its await: the flags are set and getAll is called.
loadBudgets ==
    /\ loading' = TRUE
    /\ loadError' = <<>>
    /\ listCalls' = listCalls + 1
    /\ UNCHANGED <<rows, drafts, saving, fieldErrors, pending>>

\* useEffect(() => { void loadBudgets() }, [loadBudgets])
Mount ==
    /\ ~mounted
    /\ mounted' = TRUE
    /\ loadBudgets
    /\ ev' = [op |-> "mount"]
    /\ UNCHANGED events

\* Mutant: the Refresh button is never disabled.
RefreshEnabled_Always == mounted

\* The Refresh button, disabled while loading.
RefreshEnabled == mounted /\ ~loading

Refresh ==
    /\ RefreshEnabled
    /\ events < MaxEvents
    /\ events' = events + 1
    /\ loadBudgets
    /\ ev' = [op |-> "refresh"]
    /\ UNCHANGED mounted

\* Some input of the grid would show a draft that differs from its saved row.
Dirty ==
    \E i \in 1..Len(rows), field \in DraftField :
        getDraftValue(drafts, rows[i].id, field) # rows[i][field]

\* getAll resolved: the try block after the await, then finally.
ListResolved(result) ==
    /\ listCalls > 0
    /\ listCalls' = listCalls - 1
    /\ LET data == IF result.isArray THEN result.data ELSE <<>>
           mapped == Mapped(data)
       IN  /\ rows' = mapped
           /\ drafts' = DraftSeed(mapped)
    /\ loading' = FALSE
    /\ ev' = [op |-> "listResolved", result |-> result, dirty |-> Dirty]
    /\ UNCHANGED <<loadError, saving, fieldErrors, mounted, pending, events>>

\* Mutant: a failed load empties the grid.
ListRejected_Reset(error) ==
    /\ listCalls > 0
    /\ listCalls' = listCalls - 1
    /\ loadError' = <<MessageOf(error, "Unable to load budgets.")>>
    /\ loading' = FALSE
    /\ rows' = <<>>
    /\ drafts' = EmptyObject
    /\ ev' = [op |-> "listRejected", error |-> error]
    /\ UNCHANGED <<saving, fieldErrors, mounted, pending, events>>

\* Mutant: the loading flag is cleared in the try block, not in finally.
ListRejected_StillLoading(error) ==
    /\ listCalls > 0
    /\ listCalls' = listCalls - 1
    /\ loadError' = <<MessageOf(error, "Unable to load budgets.")>>
    /\ ev' = [op |-> "listRejected", error |-> error]
    /\ UNCHANGED <<loading, rows, drafts, saving, fieldErrors, mounted,
                   pending, events>>

\* getAll rejected: the catch block, then finally.
ListRejected(error) ==
    /\ listCalls > 0
    /\ listCalls' = listCalls - 1
    /\ loadError' = <<MessageOf(error, "Unable to load budgets.")>>
    /\ loading' = FALSE
    /\ ev' = [op |-> "listRejected", error |-> error]
    /\ UNCHANGED <<rows, drafts, saving, fieldErrors, mounted, pending, events>>

\* ------------------------------------------------------------- the view

\* The panel the component renders (the conditional chain of the return).
View ==
    IF loading THEN "skeleton"
    ELSE IF Truthy(loadError) THEN "error"
    ELSE IF Len(rows) = 0 THEN "empty"
    ELSE "grid"

\* An EditableField is rendered for every row and field of the grid.
FieldShown(id) == View = "grid" /\ id \in RowIds(rows)

\* ------------------------------------------------------ handleDraftChange

\* Mutant: the other fields of the draft are not carried over.
DraftChanged_Replace(current, id, field, value) ==
    Spread(current, id, Spread(EmptyObject, field, value))

\* (current) => ({ ...current, [id]: { ...current[id], [field]: value } })
DraftChanged(current, id, field, value) ==
    Spread(current, id, Spread(SpreadOf(current, id), field, value))

handleDraftChange(id, field, value) ==
    drafts' = DraftChanged(drafts, id, field, value)

\* Mutant: typing into a field clears the errors.
OnChange_ClearsErrors(id, field, text) ==
    /\ FieldShown(id)
    /\ events < MaxEvents
    /\ events' = events + 1
    /\ handleDraftChange(id, field, text)
    /\ fieldErrors' = EmptyObject
    /\ ev' = [op |-> "change", id |-> id, field |-> field, value |-> text]
    /\ UNCHANGED <<rows, loading, loadError, saving, mounted, listCalls, pending>>

\* Input.onChange of the field (id, field): the user types text.
OnChange(id, field, text) ==
    /\ FieldShown(id)
    /\ events < MaxEvents
    /\ events' = events + 1
    /\ handleDraftChange(id, field, text)
    /\ ev' = [op |-> "change", id |-> id, field |-> field, value |-> text]
    /\ UNCHANGED <<rows, loading, loadError, saving, fieldErrors,
                   mounted, listCalls, pending>>

\* ------------------------------------------------------------ handleCommit

\* Mutant: the check is skipped.
Rejected_Skipped(field, parsed) == FALSE

\* The budgetConsumed check: the parsed number must be finite.
Rejected(field, parsed) == field = "budgetConsumed" /\ ~NumberIsFinite(parsed)

\* Mutant: the number is not turned back into text.
NextValue_Raw(field, draftValue) == draftValue

\* nextValue: the trimmed text, or the string form of the parsed number.
NextValue(field, draftValue) ==
    IF field = "budgetConsumed" THEN String(Number(draftValue)) ELSE draftValue

\* Mutant: the payload is keyed by the field names of the grid, with an
\* entry for every field.
UpdatePayload_ClientNames(field, draftValue) ==
    [f \in DraftField |->
        IF f # field THEN <<>>
        ELSE IF field = "budgetConsumed" THEN Number(draftValue) ELSE draftValue]

\* updatePayload: the store attribute of the field and its value.
UpdatePayload(field, draftValue) ==
    (IF field = "budgetConsumed"
     THEN [promx_budgetconsumed |-> Number(draftValue)]
     ELSE EmptyObject)
    @@ (IF field = "name" THEN [promx_name |-> draftValue] ELSE EmptyObject)
    @@ (IF field = "ownerId" THEN [ownerid |-> draftValue] ELSE EmptyObject)

\* Mutant: the unchanged-value check is missing.
SameAsSaved_Never(original, field, nextValue) == FALSE

\* originalValue === nextValue
SameAsSaved(original, field, nextValue) == original[field] = nextValue

\* What the continuation of an update call holds on to.
UpdateCall(id, field, value) ==
    [id |-> id, field |-> field, value |-> value,
     errorKey |-> getErrorKey(id, field),
     payload |-> UpdatePayload(field, trim(value)),
     nextValue |-> NextValue(field, trim(value))]

\* Which way handleCommit(id, field, value) goes.
CommitPath(id, field, value) ==
    LET draftValue == trim(value)
        original == FindRow(rows, id)
    IN  IF original = <<>> THEN "no-row"
        ELSE IF Rejected(field, Number(draftValue)) THEN "invalid"
        ELSE IF SameAsSaved(original[1], field, NextValue(field, draftValue))
             THEN "unchanged"
        ELSE "update"

\* handleCommit up to its await.
handleCommit(id, field, value) ==
    LET errorKey == getErrorKey(id, field)
        path == CommitPath(id, field, value)
    IN  CASE path = "no-row" ->
                UNCHANGED <<fieldErrors, saving, pending>>
          [] path = "invalid" ->
                /\ fieldErrors' = Spread(fieldErrors, errorKey, <<"Enter a valid number.">>)
                /\ UNCHANGED <<saving, pending>>
          [] path = "unchanged" ->
                /\ fieldErrors' = Spread(fieldErrors, errorKey, <<>>)
                /\ UNCHANGED <<saving, pending>>
          [] path = "update" ->
                /\ saving' = Spread(saving, errorKey, TRUE)
                /\ pending' = Append(pending, UpdateCall(id, field, value))
                /\ UNCHANGED fieldErrors

\* Input.onBlur of the field (id, field): commit the value the input shows.
OnBlur(id, field) ==
    LET value == getDraftValue(drafts, id, field)
    IN  /\ FieldShown(id)
        /\ events < MaxEvents
        /\ CommitPath(id, field, value) = "update" => Len(pending) < MaxPending
        /\ events' = events + 1
        /\ handleCommit(id, field, value)
        /\ ev' = [op |-> "blur", id |-> id, field |-> field, value |-> value,
                  path |-> CommitPath(id, field, value),
                  error |-> Lookup(fieldErrors, getErrorKey(id, field))]
        /\ UNCHANGED <<rows, drafts, loading, loadError, mounted, listCalls>>

RemoveAt(s, i) == SubSeq(s, 1, i - 1) \o SubSeq(s, i + 1, Len(s))

\* Mutant: the finally block is missing.
SavingSettled_Kept(current, errorKey) == current

\* finally: setSaving((current) => ({ ...current, [errorKey]: false }))
SavingSettled(current, errorKey) == Spread(current, errorKey, FALSE)

\* Mutant: a response whose row is not among the rows adds the row.
RowsSaved_Upsert(current, id, field, nextValue) ==
    IF id \in RowIds(current)
    THEN [j \in 1..Len(current) |->
            IF current[j].id = id
            THEN Spread(current[j], field, nextValue)
            ELSE current[j]]
    ELSE Append(current,
                Spread([id |-> id, name |-> <<>>, budgetConsumed |-> <<>>,
                        ownerId |-> <<>>], field, nextValue))

\* Mutant: the saved row is rebuilt from the draft of the row, which takes
\* the uncommitted text of its other fields along.
RowsSaved_FromDraft(current, id, field, nextValue) ==
    [j \in 1..Len(current) |->
        IF current[j].id = id
        THEN Spread(SpreadOf(drafts, id), field, nextValue)
        ELSE current[j]]

\* setRows((current) => current.map(...)): the field of the rows with the id.
RowsSaved(current, id, field, nextValue) ==
    [j \in 1..Len(current) |->
        IF current[j].id = id
        THEN Spread(current[j], field, nextValue)
        ELSE current[j]]

\* Mutant: the other entries of the draft map are not spread.
DraftsSaved_Only(current, id, field, nextValue) ==
    id :> Spread(SpreadOf(current, id), field, nextValue)

\* setDrafts((current) => ({ ...current, [id]: { ...current[id], [field]: nextValue } }))
DraftsSaved(current, id, field, nextValue) ==
    Spread(current, id, Spread(SpreadOf(current, id), field, nextValue))

\* The resolved update handled right before, if the last handler was one.
ResolvedBefore ==
    IF ev.op = "updateResolved"
    THEN <<[call |-> ev.call, index |-> ev.index]>>
    ELSE <<>>

\* Mutant: a response that follows the response of another commit of the
\* same field key is dropped, so that the first response wins.
UpdateResolved_FirstWins(i) ==
    /\ i \in 1..Len(pending)
    /\ LET call == pending[i]
           stale == /\ ResolvedBefore # <<>>
                    /\ ResolvedBefore[1].call.errorKey = call.errorKey
       IN  /\ rows' = IF stale THEN rows
                      ELSE RowsSaved(rows, call.id, call.field, call.nextValue)
           /\ drafts' = IF stale THEN drafts
                        ELSE DraftsSaved(drafts, call.id, call.field, call.nextValue)
           /\ fieldErrors' = Spread(fieldErrors, call.errorKey, <<>>)
           /\ saving' = SavingSettled(saving, call.errorKey)
    /\ pending' = RemoveAt(pending, i)
    /\ ev' = [op |-> "updateResolved", call |-> pending[i], index |-> i,
              after |-> ResolvedBefore]
    /\ UNCHANGED <<loading, loadError, mounted, listCalls, events>>

\* update resolved: the try block after the await, then finally. pending is
\* in the order of the update calls, so index tells which call is answered.
UpdateResolved(i) ==
    /\ i \in 1..Len(pending)
    /\ LET call == pending[i]
       IN  /\ rows' = RowsSaved(rows, call.id, call.field, call.nextValue)
           /\ drafts' = DraftsSaved(drafts, call.id, call.field, call.nextValue)
           /\ fieldErrors' = Spread(fieldErrors, call.errorKey, <<>>)
           /\ saving' = SavingSettled(saving, call.errorKey)
    /\ pending' = RemoveAt(pending, i)
    /\ ev' = [op |-> "updateResolved", call |-> pending[i], index |-> i,
              after |-> ResolvedBefore]
    /\ UNCHANGED <<loading, loadError, mounted, listCalls, events>>

\* Mutant: a failed update is sent again.
UpdateRejected_Retry(i, error) ==
    /\ i \in 1..Len(pending)
    /\ LET call == pending[i]
       IN  /\ fieldErrors' =
                Spread(fieldErrors, call.errorKey,
                       <<MessageOf(error, "Unable to save changes.")>>)
           /\ saving' = SavingSettled(saving, call.errorKey)
           /\ pending' = Append(RemoveAt(pending, i), call)
           /\ ev' = [op |-> "updateRejected", call |-> call, error |-> error]
    /\ UNCHANGED <<rows, drafts, loading, loadError, mounted, listCalls, events>>

\* update rejected: the catch block, then finally.
UpdateRejected(i, error) ==
    /\ i \in 1..Len(pending)
    /\ LET call == pending[i]
       IN  /\ fieldErrors' =
                Spread(fieldErrors, call.errorKey,
                       <<MessageOf(error, "Unable to save changes.")>>)
           /\ saving' = SavingSettled(saving, call.errorKey)
    /\ pending' = RemoveAt(pending, i)
    /\ ev' = [op |-> "updateRejected", call |-> pending[i], error |-> error]
    /\ UNCHANGED <<rows, drafts, loading, loadError, mounted, listCalls, events>>

\* ------------------------------------------------------------------- Next

BudgetIds == {"b1", "b2"}

Next ==
    \/ Mount
    \/ Refresh
    \/ \E result \in ListResults : ListResolved(result)
    \/ \E error \in Thrown : ListRejected(error)
    \/ \E id \in BudgetIds, field \in DraftField :
            \E text \in Typed(field) : OnChange(id, field, text)
    \/ \E id \in BudgetIds, field \in DraftField : OnBlur(id, field)
    \/ \E i \in 1..MaxPending : UpdateResolved(i)
    \/ \E i \in 1..MaxPending, error \in Thrown : UpdateRejected(i, error)

Spec == Init /\ [][Next]_vars

\* Every update call gets its response: the service settles each promise.
UpdateResponse ==
    \E i \in 1..MaxPending :
        UpdateResolved(i) \/ \E error \in Thrown : UpdateRejected(i, error)

\* The steps of the runs of at most MaxFairEvents user events.
FairNext ==
    \/ Mount
    \/ Refresh /\ events' <= MaxFairEvents
    \/ \E result \in ListResults : ListResolved(result)
    \/ \E error \in Thrown : ListRejected(error)
    \/ \E id \in BudgetIds, field \in DraftField :
            \E text \in Typed(field) :
                OnChange(id, field, text) /\ events' <= MaxFairEvents
    \/ \E id \in BudgetIds, field \in DraftField :
            OnBlur(id, field) /\ events' <= MaxFairEvents
    \/ UpdateResponse

FairSpec == Init /\ [][FairNext]_vars /\ WF_vars(UpdateResponse)

\* The component with a getAll that may also reject with an Error without a
\* message, within MaxFairEvents user events.
ViewNext ==
    \/ Mount
    \/ Refresh /\ events' <= MaxFairEvents
    \/ \E result \in ListResults : ListResolved(result)
    \/ \E error \in ListThrown : ListRejected(error)
    \/ \E id \in BudgetIds, field \in DraftField :
          \E text \in Typed(field) :
              OnChange(id, field, text) /\ events' <= MaxFairEvents
    \/ \E id \in BudgetIds, field \in DraftField :
          OnBlur(id, field) /\ events' <= MaxFairEvents
    \/ \E i \in 1..MaxPending : UpdateResolved(i)
    \/ \E i \in 1..MaxPending, error \in Thrown : UpdateRejected(i, error)

ViewSpec == Init /\ [][ViewNext]_vars

\* Every getAll call gets its response.
ListResponse ==
    \/ \E result \in ListResults : ListResolved(result)
    \/ \E error \in Thrown : ListRejected(error)

\* The mount effect runs after the first render, and every getAll call gets
\* its response.
FairLoadSpec ==
    Init /\ [][FairNext]_vars /\ WF_vars(Mount) /\ WF_vars(ListResponse)

\* ------------------------------------------------------------- properties

\* object[key] is there and equals value.
Is(object, key, value) == key \in DOMAIN object /\ object[key] = value

\* The saved value of a field of the row with the id, <<>> when not loaded.
SavedValue(rs, id, field) ==
    LET row == FindRow(rs, id) IN IF row = <<>> THEN <<>> ELSE <<row[1][field]>>

\* The value a commit of the text saves: trimmed, a number re-stringified.
Transformed(field, value) ==
    IF field = "budgetConsumed" THEN String(Number(trim(value))) ELSE trim(value)

\* C1: when the update of a commit succeeds and the row is still loaded, the
\* row's field and the draft's field are the transformed value, and the
\* field key's error is cleared and its saving flag is false.
C1_CommitSuccess ==
    ev.op = "updateResolved" /\ ev.call.id \in RowIds(rows) =>
        LET id == ev.call.id
            field == ev.call.field
            key == getErrorKey(id, field)
            expected == Transformed(field, ev.call.value)
        IN  /\ \A i \in 1..Len(rows) : rows[i].id = id => rows[i][field] = expected
            /\ id \in DOMAIN drafts
            /\ Is(drafts[id], field, expected)
            /\ Is(fieldErrors, key, <<>>)
            /\ Is(saving, key, FALSE)

\* A commit of "1.50" succeeded: row and draft show "1.5".
C1_Witness ==
    /\ ev.op = "updateResolved"
    /\ ev.call.id = "b1" /\ ev.call.field = "budgetConsumed"
    /\ ev.call.value = T_1p50
    /\ Len(rows) > 0 /\ rows[1].id = "b1"
    /\ rows[1].budgetConsumed = <<"1", ".", "5">>
    /\ drafts["b1"].budgetConsumed = <<"1", ".", "5">>

\* C2: when the update of a commit rejects, the field key's error is the
\* failure's message, or 'Unable to save changes.' for a failure that is no
\* Error, the saving flag is false, and rows and drafts are as they were
\* just before the response was handled.
C2_CommitFailure ==
    [][ev'.op = "updateRejected" =>
        LET key == getErrorKey(ev'.call.id, ev'.call.field)
            message == IF ev'.error.isError
                       THEN ev'.error.message
                       ELSE "Unable to save changes."
        IN  /\ Is(fieldErrors', key, <<message>>)
            /\ Is(saving', key, FALSE)
            /\ rows' = rows
            /\ drafts' = drafts]_vars

\* The update of the name " Q3 " failed with "network timeout": the draft
\* still holds the typed text and the row its saved value.
C2_Witness ==
    /\ ev.op = "updateRejected"
    /\ ev.call.id = "b1" /\ ev.call.field = "name"
    /\ Is(fieldErrors, "b1-name", <<"network timeout">>)
    /\ Is(saving, "b1-name", FALSE)
    /\ Len(rows) > 0 /\ rows[1].name = T_Q1
    /\ drafts["b1"].name = T_Q3sp

\* C3: a commit of budgetConsumed whose trimmed value parses to no finite
\* number sets the field key's error to 'Enter a valid number.', issues no
\* update request and leaves saving flags, rows and drafts unchanged.
C3_InvalidNumber ==
    [][(/\ ev'.op = "blur"
        /\ ev'.field = "budgetConsumed"
        /\ ~NumberIsFinite(Number(trim(ev'.value)))) =>
            /\ Is(fieldErrors', getErrorKey(ev'.id, ev'.field),
                  <<"Enter a valid number.">>)
            /\ pending' = pending
            /\ saving' = saving
            /\ rows' = rows
            /\ drafts' = drafts]_vars

\* "abc" was committed as the budgetConsumed of b1.
C3_Witness ==
    /\ ev.op = "blur" /\ ev.id = "b1" /\ ev.field = "budgetConsumed"
    /\ ev.value = T_abc
    /\ Is(fieldErrors, "b1-budgetConsumed", <<"Enter a valid number.">>)
    /\ pending = <<>>
    /\ "b1-budgetConsumed" \notin DOMAIN saving

\* C4: a commit whose transformed value equals the saved value of the field
\* issues no update request, clears the field key's error and leaves saving
\* flags, rows and drafts unchanged.
C4_UnchangedValue ==
    [][(/\ ev'.op = "blur"
        /\ ev'.field = "budgetConsumed" => NumberIsFinite(Number(trim(ev'.value)))
        /\ SavedValue(rows, ev'.id, ev'.field)
                = <<Transformed(ev'.field, ev'.value)>>) =>
            /\ Is(fieldErrors', getErrorKey(ev'.id, ev'.field), <<>>)
            /\ pending' = pending
            /\ saving' = saving
            /\ rows' = rows
            /\ drafts' = drafts]_vars

\* " 150" was committed over the saved "150" while the field showed an error.
C4_Witness ==
    /\ ev.op = "blur" /\ ev.id = "b1" /\ ev.field = "budgetConsumed"
    /\ ev.value = T_150sp
    /\ Truthy(ev.error)
    /\ Len(rows) > 0 /\ rows[1].id = "b1" /\ rows[1].budgetConsumed = T_150
    /\ Is(fieldErrors, "b1-budgetConsumed", <<>>)
    /\ pending = <<>>

\* The commit of ev passes the number check and the unchanged-value check.
Passes(e, rs) ==
    /\ e.field = "budgetConsumed" => NumberIsFinite(Number(trim(e.value)))
    /\ SavedValue(rs, e.id, e.field) # <<Transformed(e.field, e.value)>>

\* C5: a commit that passes the number check and the unchanged-value check
\* issues exactly one update request, a commit stopped by either issues
\* none, and no other step issues one: a failed update is not sent again.
C5_OneUpdatePerCommit ==
    [][/\ (ev'.op = "blur" /\ Passes(ev', rows)) =>
            /\ Len(pending') = Len(pending) + 1
            /\ SubSeq(pending', 1, Len(pending)) = pending
            /\ pending'[Len(pending')].id = ev'.id
            /\ pending'[Len(pending')].field = ev'.field
            /\ pending'[Len(pending')].value = ev'.value
       /\ (ev'.op = "blur" /\ ~Passes(ev', rows)) => pending' = pending
       /\ (ev'.op \in {"updateResolved", "updateRejected"}) =>
            \E i \in 1..Len(pending) : pending' = RemoveAt(pending, i)
       /\ (ev'.op \notin {"blur", "updateResolved", "updateRejected"}) =>
            pending' = pending]_vars

\* Two commits passed both checks and two update requests are in flight.
C5_Witness ==
    /\ ev.op = "blur" /\ ev.path = "update"
    /\ Len(pending) = 2
    /\ pending[2].id = ev.id /\ pending[2].field = ev.field

\* C6: right after a load succeeded the rows are the fetched records in
\* fetch order, a missing attribute read as '', and the drafts are exactly
\* a copy of each row: every draft edit made before is gone.
C6_LoadSuccess ==
    ev.op = "listResolved" =>
        LET data == IF ev.result.isArray THEN ev.result.data ELSE <<>>
        IN  /\ Len(rows) = Len(data)
            /\ \A i \in 1..Len(data) :
                /\ rows[i].id = data[i].promx_budgetid
                /\ rows[i].name = OrEmpty(data[i].promx_name)
                /\ rows[i].budgetConsumed = OrEmpty(data[i].promx_budgetconsumed)
                /\ rows[i].ownerId = OrEmpty(data[i].ownerid)
            /\ DOMAIN drafts = RowIds(rows)
            /\ \A i \in 1..Len(rows), field \in DraftField :
                Is(drafts[rows[i].id], field, rows[i][field])

\* A load succeeded with two rows while an input held an uncommitted edit.
C6_Witness ==
    /\ ev.op = "listResolved" /\ ev.dirty
    /\ Len(rows) = 2
    /\ ~Dirty

\* C7: a failed load leaves rows and drafts as they were and sets the load
\* error to the failure's message, or to 'Unable to load budgets.' for a
\* failure that is no Error.
C7_LoadFailure ==
    [][ev'.op = "listRejected" =>
        /\ rows' = rows
        /\ drafts' = drafts
        /\ loadError' = <<IF ev'.error.isError
                          THEN ev'.error.message
                          ELSE "Unable to load budgets.">>]_vars

\* A reload failed: the two rows and an uncommitted edit are still there.
C7_Witness ==
    /\ ev.op = "listRejected"
    /\ loadError = <<"Unable to load budgets.">>
    /\ Len(rows) = 2
    /\ Dirty

\* C8: a draft change sets the draft field to the value and changes nothing
\* else: no request is issued, rows, the other drafts and draft fields,
\* saving flags, field errors, the loading flag and the load error stay, and
\* the same change made again changes nothing.
C8_DraftChangeOnly ==
    [][ev'.op = "change" =>
        LET id == ev'.id
            field == ev'.field
        IN  /\ UNCHANGED <<rows, saving, fieldErrors, loading, loadError,
                           pending, listCalls>>
            /\ DOMAIN drafts' = DOMAIN drafts \cup {id}
            /\ \A other \in DOMAIN drafts \ {id} : drafts'[other] = drafts[other]
            /\ DOMAIN drafts'[id] = DOMAIN SpreadOf(drafts, id) \cup {field}
            /\ \A f \in DOMAIN drafts'[id] \ {field} : drafts'[id][f] = drafts[id][f]
            /\ drafts'[id][field] = ev'.value
            /\ DraftChanged(drafts', id, field, ev'.value) = drafts']_vars

\* Three draft changes in a row, and nothing but drafts has changed.
C8_Witness ==
    /\ ev.op = "change" /\ events = 3
    /\ Is(drafts[ev.id], ev.field, ev.value)
    /\ Dirty
    /\ saving = EmptyObject /\ fieldErrors = EmptyObject
    /\ pending = <<>> /\ listCalls = 0 /\ View = "grid"

\* The field keys of the grid.
FieldKeys == {getErrorKey(id, field) : id \in BudgetIds, field \in DraftField}

\* saving[key] as the field renders it: 'Saving...' is shown.
IsSaving(key) == Is(saving, key, TRUE)

\* An update request of the field key is in flight.
InFlight(key) == \E i \in 1..Len(pending) : pending[i].errorKey = key

\* C9: the saving flag of a field key is true whenever an update request of
\* that field key is in flight, overlapping commits of one key included.
C9_SavingWhileInFlight == \A key \in FieldKeys : InFlight(key) => IsSaving(key)

\* C10: the response of every update, resolved or rejected, sets the saving
\* flag of its field key to false; a saving flag is true only while an update
\* request of its key is in flight; and when every update request gets its
\* response every saving flag that is true becomes false.
C10_SavingCleared ==
    /\ [](ev.op \in {"updateResolved", "updateRejected"} =>
            Is(saving, getErrorKey(ev.call.id, ev.call.field), FALSE))
    /\ [](\A key \in FieldKeys : IsSaving(key) => InFlight(key))
    /\ \A key \in FieldKeys : IsSaving(key) ~> ~IsSaving(key)

\* A rejected update has just cleared the saving flag its commit had set.
C10_Witness ==
    /\ ev.op = "updateRejected"
    /\ Is(saving, ev.call.errorKey, FALSE)
    /\ ~InFlight(ev.call.errorKey)
    /\ \E key \in FieldKeys : key # ev.call.errorKey /\ IsSaving(key)
    /\ events <= MaxFairEvents

\* C11: a load sets the loading flag when it starts, the response of its
\* list request clears the flag, resolved or rejected, and when every list
\* request gets its response a loading flag that is set is cleared.
C11_LoadingCleared ==
    /\ [](ev.op \in {"mount", "refresh"} => loading /\ listCalls > 0)
    /\ [](ev.op \in {"listResolved", "listRejected"} => ~loading)
    /\ loading ~> ~loading

\* A reload started by Refresh has failed and the loading flag is cleared.
C11_Witness ==
    /\ ev.op = "listRejected"
    /\ events = 1
    /\ Len(rows) = 2
    /\ ~loading /\ listCalls = 0

\* C12: in every reachable state the draft map has an entry for the id of
\* every row of the current rows, also after the response of a commit whose
\* row a reload has replaced.
C12_DraftForEveryRow == RowIds(rows) \subseteq DOMAIN drafts

\* The update of a commit resolved after a reload replaced the rows by rows
\* without the committed id.
C12_Witness ==
    /\ ev.op = "updateResolved"
    /\ rows # <<>>
    /\ ev.call.id \notin RowIds(rows)
    /\ ev.call.id \in DOMAIN drafts

\* The step is a handler of a commit of the field key: the blur that starts
\* it or the response of its update.
CommitStepOf(e, key) ==
    \/ e.op = "blur" /\ getErrorKey(e.id, e.field) = key
    \/ e.op \in {"updateResolved", "updateRejected"} /\ e.call.errorKey = key

\* C13: a set error entry of a field key changes only in a step of a commit
\* of that same field key, and becomes cleared only when such a commit
\* succeeds or finds the value unchanged; draft changes, commits of other
\* field keys and loads leave it as it is.
C13_ErrorClearedOnlyByOwnCommit ==
    [][\A key \in FieldKeys :
          LET before == Lookup(fieldErrors, key)
              after == Lookup(fieldErrors', key)
          IN  before # <<>> /\ after # before =>
                /\ CommitStepOf(ev', key)
                /\ after = <<>> =>
                     \/ ev'.op = "updateResolved"
                     \/ ev'.op = "blur" /\ ev'.path = "unchanged"]_vars

\* The error of one field key is set, and a reload has succeeded and left it
\* set while the update of a commit of another field key is in flight.
C13_Witness ==
    /\ ev.op = "listResolved"
    /\ Lookup(fieldErrors, getErrorKey("b1", "budgetConsumed")) = <<"Enter a valid number.">>
    /\ \E i \in 1..Len(pending) :
          pending[i].errorKey # getErrorKey("b1", "budgetConsumed")

\* C14: a commit of a field whose draft equals the saved value of the row,
\* whatever the field and the saved text, issues no update request.
C14_UnchangedIsNetworkFree ==
    ev.op = "blur" /\ SavedValue(rows, ev.id, ev.field) = <<ev.value>>
        => ev.path # "update"

\* C15: the update request of a budgetConsumed commit carries the parsed
\* number; once it has resolved, the row and the draft hold the string form
\* of that number, and a commit of that draft takes the unchanged path,
\* which issues no update request.
C15_NumberRoundTrip ==
    /\ \A i \in 1..Len(pending) :
          pending[i].field = "budgetConsumed" =>
              pending[i].payload.promx_budgetconsumed = Number(trim(pending[i].value))
    /\ ev.op = "updateResolved" /\ ev.call.field = "budgetConsumed"
       /\ ev.call.id \in RowIds(rows) =>
          LET text == String(ev.call.payload.promx_budgetconsumed)
          IN  /\ SavedValue(rows, ev.call.id, "budgetConsumed") = <<text>>
              /\ getDraftValue(drafts, ev.call.id, "budgetConsumed") = text
              /\ CommitPath(ev.call.id, "budgetConsumed", text) = "unchanged"
    /\ ev.op = "blur" /\ ev.field = "budgetConsumed" /\ ev.path # "invalid"
       /\ ev.value = String(Number(trim(ev.value)))
       /\ SavedValue(rows, ev.id, "budgetConsumed") = <<ev.value>> =>
          ev.path = "unchanged"

\* A commit of '1.50' was saved, row and draft show '1.5', and the blur of
\* that redisplayed value has issued no update request.
C15_Witness ==
    /\ ev.op = "blur" /\ ev.field = "budgetConsumed"
    /\ ev.value = <<"1", ".", "5">>
    /\ SavedValue(rows, ev.id, "budgetConsumed") = <<ev.value>>
    /\ ev.path = "unchanged"
    /\ pending = <<>>

\* C16: no step but its own response takes an update call out of flight, so
\* two commits of one field key that overlap are both sent and both
\* answered; and when the responses of two such commits resolve one after
\* the other, the row and the draft hold the value of the commit answered
\* last, whichever of the two was issued first.
C16_LastResponseWins ==
    /\ [][\A i \in 1..Len(pending) :
             \/ \E j \in 1..Len(pending') : pending'[j] = pending[i]
             \/ /\ ev'.op \in {"updateResolved", "updateRejected"}
                /\ ev'.call = pending[i]]_vars
    /\ [](ev.op = "updateResolved" /\ ev.after # <<>>
          /\ ev.after[1].call.errorKey = ev.call.errorKey
          /\ ev.call.id \in RowIds(rows) =>
             /\ SavedValue(rows, ev.call.id, ev.call.field) = <<ev.call.nextValue>>
             /\ getDraftValue(drafts, ev.call.id, ev.call.field) = ev.call.nextValue)

\* Two commits of one field key with different values were in flight at
\* once; the one issued second was answered first, the one issued first was
\* answered last, and the row and the draft hold the value issued first.
C16_Witness ==
    /\ ev.op = "updateResolved" /\ ev.after # <<>>
    /\ ev.after[1].call.errorKey = ev.call.errorKey
    /\ ev.after[1].index = 2 /\ ev.index = 1
    /\ ev.after[1].call.nextValue # ev.call.nextValue
    /\ pending = <<>>
    /\ SavedValue(rows, ev.call.id, ev.call.field) = <<ev.call.nextValue>>
    /\ getDraftValue(drafts, ev.call.id, ev.call.field) = ev.call.nextValue

\* C17: the start of a load and both of its outcomes leave the saving flags
\* and the field errors as they are; the start of a commit and both outcomes
\* of its update leave the load error and the loading flag as they are; and
\* the start of every load clears the load error.
C17_IndependentErrorScopes ==
    [][/\ ev'.op \in {"mount", "refresh", "listResolved", "listRejected"} =>
            saving' = saving /\ fieldErrors' = fieldErrors
       /\ ev'.op \in {"blur", "updateResolved", "updateRejected"} =>
            loadError' = loadError /\ loading' = loading
       /\ ev'.op \in {"mount", "refresh"} => loadError' = <<>>]_vars

\* A reload has failed while one field shows a validation error and the
\* update of another is in flight: the load error is set beside them.
C17_Witness ==
    /\ ev.op = "listRejected"
    /\ loadError # <<>>
    /\ \E key \in FieldKeys : Lookup(fieldErrors, key) # <<>>
    /\ \E key \in FieldKeys : IsSaving(key) /\ InFlight(key)

\* The attribute of the store that holds the field.
StoreAttribute(field) ==
    CASE field = "name" -> "promx_name"
      [] field = "budgetConsumed" -> "promx_budgetconsumed"
      [] field = "ownerId" -> "ownerid"

\* C18: the payload of every update request has exactly one attribute, the
\* store attribute of the committed field; its value is the trimmed draft
\* text, and for budgetConsumed the finite number the trimmed text parses to.
C18_OneStoreAttribute ==
    \A i \in 1..Len(pending) :
        LET call == pending[i]
            attribute == StoreAttribute(call.field)
        IN  /\ DOMAIN call.payload = {attribute}
            /\ IF call.field = "budgetConsumed"
               THEN /\ call.payload[attribute] = Number(trim(call.value))
                    /\ call.payload[attribute].kind = "finite"
               ELSE call.payload[attribute] = trim(call.value)

\* Two update requests are in flight: one of budgetConsumed typed ' 150'
\* carrying the number 150, one of name typed with white space around it
\* carrying the trimmed text.
C18_Witness ==
    \E i, j \in 1..Len(pending) :
        /\ pending[i].field = "budgetConsumed" /\ pending[i].value = T_150sp
        /\ pending[i].payload = [promx_budgetconsumed |-> Finite(FALSE, 150, 0)]
        /\ pending[j].field = "name" /\ pending[j].value = T_Q3sp
        /\ pending[j].value # trim(T_Q3sp)
        /\ pending[j].payload = [promx_name |-> trim(T_Q3sp)]

\* C19: the view follows the priority loading placeholder, error panel
\* after a failed load, empty-state panel after a load that gave no rows,
\* grid otherwise; a load error is set exactly after a failed load, until the
\* next load starts. Inputs are rendered only when nothing is loading, no
\* load has failed and there are rows.
C19_ViewPriority ==
    LET failed == loadError # <<>>
    IN  /\ View = (IF loading THEN "skeleton"
                   ELSE IF failed THEN "error"
                   ELSE IF Len(rows) = 0 THEN "empty"
                   ELSE "grid")
        /\ ev.op = "listRejected" => failed
        /\ \A id \in BudgetIds :
              FieldShown(id) => ~loading /\ ~failed /\ Len(rows) > 0

\* Numeric input: text that is not empty and parses to a finite number.
NumericText(text) == text # <<>> /\ NumberIsFinite(Number(text))

\* C20: an update request of budgetConsumed is in flight only for a draft
\* whose trimmed text is numeric; a commit of any other text, the empty and
\* the white-space-only text included, takes the invalid path and sets the
\* field key's error to 'Enter a valid number.'.
C20_NonNumericRejected ==
    /\ \A i \in 1..Len(pending) :
          pending[i].field = "budgetConsumed" =>
              NumericText(trim(pending[i].value))
    /\ ev.op = "blur" /\ ev.field = "budgetConsumed"
       /\ ~NumericText(trim(ev.value)) =>
          /\ ev.path = "invalid"
          /\ Is(fieldErrors, getErrorKey(ev.id, ev.field), <<"Enter a valid number.">>)

\* C21: at most one getAll call is in flight at any time. The component
\* starts loading with no call yet, the mount effect starts the one call,
\* and from then on the loading flag is true exactly while a getAll call is
\* in flight.
C21_OneListRequest ==
    /\ listCalls <= 1
    /\ ~mounted => loading /\ listCalls = 0
    /\ mounted => (loading <=> listCalls = 1)

\* A reload started by Refresh is in flight after an earlier load gave rows:
\* the flag is set, one call is out and Refresh is disabled.
C21_Witness ==
    /\ ev.op = "refresh"
    /\ Len(rows) > 0
    /\ loading /\ listCalls = 1
    /\ ~RefreshEnabled

\* The two objects agree at the key: both lack it or both hold one value.
SameAt(before, after, key) ==
    /\ key \in DOMAIN after <=> key \in DOMAIN before
    /\ key \in DOMAIN before => after[key] = before[key]

\* The step of a commit of (id, field) leaves every other field of every
\* row and draft, and every other key's saving flag and error, as it was.
OnlyFieldTouched(id, field) ==
    /\ Len(rows') = Len(rows)
    /\ \A j \in 1..Len(rows) :
          /\ rows'[j].id = rows[j].id
          /\ \A g \in DraftField :
                rows[j].id # id \/ g # field => rows'[j][g] = rows[j][g]
    /\ \A r \in BudgetIds :
          /\ r # id => SameAt(drafts, drafts', r)
          /\ \A g \in DraftField :
                g # field =>
                    getDraftValue(drafts', r, g) = getDraftValue(drafts, r, g)
    /\ \A key \in FieldKeys \ {getErrorKey(id, field)} :
          SameAt(saving, saving', key) /\ SameAt(fieldErrors, fieldErrors', key)

\* C22: every step of a commit of a field key, its start and either outcome
\* of its update, changes nothing but that field of the row and the draft
\* and that key's saving flag and error; and when the updates of two
\* commits of different field keys resolve one after the other, in either
\* order, the rows and the drafts hold both committed values.
C22_CommitsIsolated ==
    /\ [][/\ ev'.op = "blur" => OnlyFieldTouched(ev'.id, ev'.field)
          /\ ev'.op \in {"updateResolved", "updateRejected"} =>
                OnlyFieldTouched(ev'.call.id, ev'.call.field)]_vars
    /\ [](ev.op = "updateResolved" /\ ev.after # <<>>
          /\ ev.after[1].call.errorKey # ev.call.errorKey =>
             \A call \in {ev.call, ev.after[1].call} :
                call.id \in RowIds(rows) =>
                    /\ SavedValue(rows, call.id, call.field) = <<call.nextValue>>
                    /\ getDraftValue(drafts, call.id, call.field) = call.nextValue)

\* The commits of two fields of one row were in flight together; the one
\* issued second was answered first, and the row and the draft hold both
\* new values.
C22_Witness ==
    /\ ev.op = "updateResolved" /\ ev.after # <<>>
    /\ ev.after[1].call.id = ev.call.id
    /\ ev.after[1].call.field # ev.call.field
    /\ ev.after[1].index = 2 /\ ev.index = 1
    /\ pending = <<>>
    /\ \A call \in {ev.call, ev.after[1].call} :
          /\ SavedValue(rows, call.id, call.field) = <<call.nextValue>>
          /\ getDraftValue(drafts, call.id, call.field) = call.nextValue
          /\ call.nextValue # call.value

\* The ids of the rows, in the order of the rows.
RowIdSeq(rs) == [j \in 1..Len(rs) |-> rs[j].id]

\* C23: the ids of the rows and their order change only in the step of a
\* load that succeeded; the response of a commit, resolved or rejected,
\* keeps them, also when a reload has dropped the row of the commit.
C23_RowsChangeOnlyOnLoad ==
    [][RowIdSeq(rows') # RowIdSeq(rows) => ev'.op = "listResolved"]_vars

\* The update of a commit of b2 resolved after a reload that returned b1
\* alone: b2 is not back among the rows.
C23_Witness ==
    /\ ev.op = "updateResolved"
    /\ ev.call.id = "b2"
    /\ RowIdSeq(rows) = <<"b1">>
    /\ pending = <<>>

====
